---- MODULE Spec2Model ----
(***************************************************************************)
(* Model of the voice-immersion audio pipeline (src/src/lib.rs and         *)
(* src/src/main.rs).                                                       *)
(*                                                                         *)
(* Two groups of operations that share no state in lib.rs:                 *)
(*   - the output pipeline of run_out: the pose writer and the control     *)
(*     loop around the RwLock<SourceInfo>, the three Shared parameters     *)
(*     (amplitude, left_amp, right_amp), the setting queue of the material *)
(*     filter, and the output callback that renders from them;             *)
(*   - the capture pipeline: read_data pushing frames into the bounded     *)
(*     channel, and InputNode::tick popping them.                          *)
(*                                                                         *)
(* f32 values are modelled as records [k, v]: k = "num" with v the value   *)
(* in thousandths (truncated), k = "nzero" for -0.0, k = "nan", or         *)
(* k = "inf" with v = +1 / -1.  The coordinates of a pose are whole        *)
(* numbers.                                                                *)
(***************************************************************************)
EXTENDS Integers, Sequences, FiniteSets, TLC

----------------------------------------------------------------------------
(* Bounds of the model. *)

\* Number of control-loop iterations explored.
MaxTicks == 3
\* Capacity of the setting queue between the control loop and the filter.
SettingCap == 1
\* Capacity of the bounded capture channel handed to run_in / run_out.
QueueCap == 4
\* Number of frames the capture callbacks attempt to push in a run.
MaxFrames == 6
\* Longest input buffer (in samples) handed to one capture callback.
MaxBuf == 4
\* Largest channel count of the input stream configuration.
MaxChannels == 2
\* InputNode::tick calls followed by the model.
MaxPulls == 5
\* Number of calls of the sample producer followed in the loop-back.
MaxProduced == 4
\* Largest distance between listener and source, in whole units.
MaxDist == 20

----------------------------------------------------------------------------
(* f32 arithmetic. *)

F(n) == [k |-> "num", v |-> n]
NaN == [k |-> "nan", v |-> 0]
Inf(s) == [k |-> "inf", v |-> s]
\* -0.0: equal in value to 0.0, told apart by signum and by division.
NegZero == [k |-> "nzero", v |-> 0]

Zero == F(0)
Half == F(500)
One == F(1000)
Two == F(2000)

IsNum(x) == x.k \in {"num", "nzero"}
IsNaN(x) == x.k = "nan"
IsZero(x) == IsNum(x) /\ x.v = 0

\* The sign bit of a number or an infinity, as +1 / -1.
SignOf(x) == IF x.k = "nzero" \/ x.v < 0 THEN -1 ELSE 1

\* The number n thousandths; a zero takes the sign s.
Num(n, s) == IF n # 0 THEN F(n) ELSE IF s < 0 THEN NegZero ELSE Zero

Abs(n) == IF n < 0 THEN -n ELSE n
Sgn(n) == IF n < 0 THEN -1 ELSE 1

\* Integer division truncating toward zero.
TruncDiv(a, b) == Sgn(a) * Sgn(b) * (Abs(a) \div Abs(b))

FNeg(x) ==
    CASE x.k = "nan" -> NaN
      [] x.k = "inf" -> Inf(-x.v)
      [] OTHER -> Num(-x.v, -SignOf(x))

\* A sum that is zero is -0.0 only when both terms are -0.0.
FAdd(x, y) ==
    CASE x.k = "nan" \/ y.k = "nan" -> NaN
      [] x.k = "inf" /\ y.k = "inf" -> IF x.v = y.v THEN x ELSE NaN
      [] x.k = "inf" -> x
      [] y.k = "inf" -> y
      [] OTHER -> Num(x.v + y.v,
                      IF SignOf(x) < 0 /\ SignOf(y) < 0 THEN -1 ELSE 1)

FSub(x, y) == FAdd(x, FNeg(y))

FMul(x, y) ==
    CASE x.k = "nan" \/ y.k = "nan" -> NaN
      [] x.k = "inf" \/ y.k = "inf" ->
            IF IsZero(x) \/ IsZero(y) THEN NaN
            ELSE Inf(SignOf(x) * SignOf(y))
      [] OTHER -> Num(TruncDiv(x.v * y.v, 1000), SignOf(x) * SignOf(y))

FDiv(x, y) ==
    CASE x.k = "nan" \/ y.k = "nan" -> NaN
      [] x.k = "inf" /\ y.k = "inf" -> NaN
      [] x.k = "inf" -> Inf(SignOf(x) * SignOf(y))
      [] y.k = "inf" -> Num(0, SignOf(x) * SignOf(y))
      [] y.v = 0 -> IF x.v = 0 THEN NaN ELSE Inf(SignOf(x) * SignOf(y))
      [] OTHER -> Num(TruncDiv(x.v * 1000, y.v), SignOf(x) * SignOf(y))

\* f32::powi(2)
FPowi2(x) == FMul(x, x)

\* f32::signum: 1.0 for positive numbers, +0.0 and +inf, -1.0 for negative
\* numbers, -0.0 and -inf, NaN for NaN.
FSignum(x) ==
    CASE x.k = "nan" -> NaN
      [] SignOf(x) < 0 -> F(-1000)
      [] OTHER -> One

\* Integer square root: the largest r with r * r <= n.
RECURSIVE SqrtIn(_, _, _)
SqrtIn(n, lo, hi) ==
    IF lo = hi THEN lo
    ELSE LET mid == (lo + hi + 1) \div 2
         IN  IF mid * mid <= n THEN SqrtIn(n, mid, hi)
             ELSE SqrtIn(n, lo, mid - 1)
ISqrt(n) == SqrtIn(n, 0, 46340)

\* f32::sqrt
FSqrt(x) ==
    CASE x.k = "nan" -> NaN
      [] x.k = "nzero" -> NegZero
      [] x.v < 0 -> NaN
      [] x.k = "inf" -> x
      [] OTHER -> F(ISqrt(1000 * x.v))

\* e^q in millionths for the whole exponents -7..7 (index q + 8).
ExpWhole ==
    <<911, 2478, 6737, 18315, 49787, 135335, 367879, 1000000, 2718281,
      7389056, 20085536, 54598150, 148413159, 403428793, 1096633158>>

\* e^(r/1000) in millionths, 0 <= r < 1000: the Taylor series summed until
\* its terms vanish.
RECURSIVE ExpSeries(_, _, _)
ExpSeries(r, n, term) ==
    IF term = 0 THEN 0
    ELSE term + ExpSeries(r, n + 1, (term * r) \div (1000 * (n + 1)))
ExpFraction(r) == ExpSeries(r, 0, 1000000)

\* The product of two non-negative values in millionths.
MulMillionths(a, b) ==
    LET ah == a \div 1000
        al == a % 1000
        bh == b \div 1000
        bl == b % 1000
    IN  ah * bh + (ah * bl + al * bh) \div 1000 + (al * bl) \div 1000000

\* f32::exp, for exponents up to 7.6 (larger results leave the range of the
\* model's numbers); below -7 the result is less than a thousandth.
FExp(x) ==
    CASE x.k = "nan" -> NaN
      [] x.k = "inf" -> IF x.v > 0 THEN x ELSE Zero
      [] x.v < -7000 -> Zero
      [] x.v <= 7600 ->
            F(MulMillionths(ExpWhole[(x.v \div 1000) + 8],
                            ExpFraction(x.v % 1000)) \div 1000)

----------------------------------------------------------------------------
(* Vector3<f32>.  Poses are written with whole coordinates (Vec); the      *)
(* arithmetic works on their f32 components (V3).                          *)

Vec(x, y, z) == <<x, y, z>>

\* The Vector3<f32> with the whole coordinates of a.
V3(a) == <<F(1000 * a[1]), F(1000 * a[2]), F(1000 * a[3])>>

\* UP_VECTOR
UP_VECTOR == <<Zero, One, Zero>>

\* -v
VNeg(a) == <<FNeg(a[1]), FNeg(a[2]), FNeg(a[3])>>
\* Vector3::cross
Cross(a, b) == <<FSub(FMul(a[2], b[3]), FMul(a[3], b[2])),
                 FSub(FMul(a[3], b[1]), FMul(a[1], b[3])),
                 FSub(FMul(a[1], b[2]), FMul(a[2], b[1]))>>
\* Vector3::dot
Dot(a, b) ==
    FAdd(FAdd(FMul(a[1], b[1]), FMul(a[2], b[2])), FMul(a[3], b[3]))

\* Vector3::norm
Norm(a) == FSqrt(Dot(a, a))

----------------------------------------------------------------------------
(* Program constants. *)

\* Reference distance of the distance attenuation.
D0 == 10
\* Cutoff the material filter is created with.
OpenAirCutoff == 20000
\* Cutoff sent when the listener enters a room: Setting::center(10.0).
RoomCutoff == 10

----------------------------------------------------------------------------
(* SourceInfo and InAnotherRoom. *)

\* Option<InAnotherRoom>::None
NoRoom == [some |-> FALSE, wall_width |-> Zero, wall_attenuation_factor |-> Zero,
           cutoff_frequency |-> Zero]
InAnotherRoom(w, a, c) ==
    [some |-> TRUE, wall_width |-> w, wall_attenuation_factor |-> a,
     cutoff_frequency |-> c]

\* Rooms a pose writer can report: exp(-1) and exp(-2) walls.
Rooms == { InAnotherRoom(F(2), F(500000), F(500000)),
           InAnotherRoom(F(4), F(500000), F(500000)) }
RoomOptions == {NoRoom} \cup Rooms

Positions == { Vec(0, 0, 0), Vec(3, 0, 4) }
Directions == { Vec(1, 0, 0), Vec(0, 0, 1) }

\* Positions at every whole distance up to MaxDist, on two axes and off them.
GainPositions ==
    { Vec(x, 0, 0) : x \in 0..MaxDist } \cup { Vec(0, 0, -z) : z \in 1..MaxDist }
        \cup { Vec(3, 0, 4), Vec(6, 8, 0), Vec(-5, 0, 12) }

SourceInfo(p, d, r) == [relative_position |-> p, direction |-> d, room |-> r]

\* impl Default for SourceInfo
SourceInfoDefault == SourceInfo(Vec(0, 0, 0), Vec(1, 0, 0), NoRoom)

----------------------------------------------------------------------------
(* Pure computations of the control loop. *)

\* pub fn room_amplitude_factor(room: Option<InAnotherRoom>) -> f32
room_amplitude_factor(room) ==
    IF room.some
    THEN FExp(FMul(FNeg(room.wall_width), room.wall_attenuation_factor))
    ELSE One

\* let distance = info.relative_position.norm();
Distance(info) == Norm(V3(info.relative_position))

\* An attenuation that divides by the distance ratio itself, not its square.
DistanceAttenuationLinear(info) ==
    FDiv(One, FAdd(One, FDiv(Distance(info), F(1000 * D0))))

\* let amp = 1.0 / (1.0 + (distance / 10.0).powi(2));
DistanceAttenuation(info) ==
    FDiv(One, FAdd(One, FPowi2(FDiv(Distance(info), F(1000 * D0)))))

\* let uv = info.relative_position.cross(&info.direction);
\* let coeff = (uv.norm() / distance) * uv.dot(&-UP_VECTOR).signum();
OrientationCoeff(info) ==
    LET uv == Cross(V3(info.relative_position), V3(info.direction))
    IN  FMul(FDiv(Norm(uv), Distance(info)),
             FSignum(Dot(uv, VNeg(UP_VECTOR))))

\* (1.0 + coeff) / 2.0 and (1.0 - coeff) / 2.0
LeftGain(c) == FDiv(FAdd(One, c), Two)
RightGain(c) == FDiv(FSub(One, c), Two)

----------------------------------------------------------------------------
(* Frames and interleaved sample buffers (stream sample type T = i16). *)

\* Sample::to_sample::<f32>() of an i16: s / 32768.
ToSampleF32(s) == F(TruncDiv(s * 1000, 32768))

\* T::from_sample(x) for T = i16: x * 32768 converted with `as i16`, which
\* truncates toward zero, saturates at the ends of the range and maps NaN
\* to 0.
FromSampleI16(x) ==
    CASE x.k = "nan" -> 0
      [] x.k = "inf" -> IF x.v > 0 THEN 32767 ELSE -32768
      [] OTHER ->
            LET s == TruncDiv(x.v * 32768, 1000)
            IN  IF s > 32767 THEN 32767
                ELSE IF s < -32768 THEN -32768 ELSE s

\* The pairs the sample producer handed to write_data can return.
ProducerFrames ==
    { <<F(125), F(-500)>>, <<F(300), F(1000)>>, <<F(-1000), F(300)>> }

\* A write_data that writes the right value to the even channels and the
\* left value to the odd ones.
WriteDataBufSwapped(n, ch, pairs) ==
    [j \in 1..n |->
        LET sample == pairs[((j - 1) \div ch) + 1]
            channel == (j - 1) % ch
        IN  IF channel % 2 = 0 THEN FromSampleI16(sample[2])
            ELSE FromSampleI16(sample[1])]

\* write_data on an output buffer of n samples: frame c of
\* output.chunks_mut(channels) gets pairs[c]; its even channels receive
\* T::from_sample(left), its odd channels T::from_sample(right).
WriteDataBuf(n, ch, pairs) ==
    [j \in 1..n |->
        LET sample == pairs[((j - 1) \div ch) + 1]
            channel == (j - 1) % ch
        IN  IF channel % 2 = 0 THEN FromSampleI16(sample[1])
            ELSE FromSampleI16(sample[2])]

\* The k-th sample the input device delivers: a ramp of distinct non-zero
\* i16 values, so that every captured frame is recognisable.
DeviceSample(k) ==
    LET i == ((k - 1) % 15) + 1
    IN  4096 * (IF i <= 7 THEN i ELSE 7 - i)

\* The buffer of n samples the device delivers after `done` samples.
DeviceBuffer(done, n) == [i \in 1..n |-> DeviceSample(done + i)]

\* input.chunks(channels): consecutive slices of `n` samples, the last one
\* possibly shorter.
NumChunks(len, n) == (len + n - 1) \div n
Chunks(input, n) ==
    [c \in 1..NumChunks(Len(input), n) |->
        SubSeq(input, (c - 1) * n + 1,
               IF c * n < Len(input) THEN c * n ELSE Len(input))]

\* The (left, right) pair read_data builds from one chunk: left and right
\* start at 0.0; every even channel overwrites left, every odd channel right
\* (channel numbers start at 0).
LastOf(frame, parity) ==
    LET idx == { i \in 1..Len(frame) : (i - 1) % 2 = parity }
    IN  IF idx = {} THEN Zero
        ELSE ToSampleF32(frame[CHOOSE i \in idx : \A j \in idx : j <= i])
FrameOf(frame) == <<LastOf(frame, 0), LastOf(frame, 1)>>

\* The frame InputNode::tick falls back to: (0.0, 0.0).
Silence == <<Zero, Zero>>

\* Sender::try_send on the bounded channel: the message is appended when
\* there is room, and refused (Err(Full), queue untouched) when there is none.
TrySendOk(q) == Len(q) < QueueCap
\* A channel that evicts its oldest message instead of refusing the new one.
TrySendEvictingOldest(q, msg) ==
    IF Len(q) < QueueCap THEN Append(q, msg) ELSE Append(Tail(q), msg)
TrySend(q, msg) == IF TrySendOk(q) THEN Append(q, msg) ELSE q

----------------------------------------------------------------------------
(* State. *)

VARIABLES
    \* Arc<RwLock<SourceInfo>> : the protected value and the lock's state
    source_info, lock,
    \* position of the pose writer inside its write
    wpc,
    \* history: whether a loop iteration has started since the latest
    \* completed write (the creation of the SourceInfo counting as one)
    tickedSinceCommit,
    \* control loop of run_out: position and locals
    pc, amp, coeff, in_room, room_amplitude,
    \* Shared parameters read by the net
    amplitude, left_amp, right_amp,
    \* setting queue of listen(lowpole_hz(20000.0)) and the filter's cutoff
    settings, cutoff,
    \* history: loop iterations started, whether the latest try_read
    \* succeeded, the iteration that stored each Shared, the iterations whose
    \* values the latest render tick read (and the number of frames queued in
    \* the capture channel at that tick), the room membership seen by each
    \* acquiring iteration, the cutoffs sent to the filter
    ticks, acquired, stored, renderSrc, observed, sentLog,
    \* the node the running render tick executes next
    rpc,
    \* input stream: its state ("unbuilt", "built", "playing" or "failed"), channel
    \* count of the stream config, number of samples the device has delivered,
    \* chunks left in the running input callback
    istream, channels, taken, capBuf,
    \* bounded channel between read_data and InputNode
    queue,
    \* frame returned by the latest InputNode::tick, number of ticks so far
    out, pulls,
    \* history: frames read_data tried to push with the outcome of each push,
    \* frames InputNode::tick received from the channel
    captured, delivered,
    \* interleaved buffer write_data filled, on its way to read_data
    wire,
    \* history: the pairs next_sample returned to write_data, each with the
    \* number of samples of the output frame it was written to
    produced

ctlVars == <<pc, amp, coeff, in_room, room_amplitude, amplitude, left_amp,
             right_amp, settings, ticks, acquired, stored, observed, sentLog>>
poseVars == <<source_info, wpc, tickedSinceCommit>>
renderVars == <<cutoff, renderSrc, rpc>>
loopVars == <<wire, produced>>
capVars == <<istream, channels, taken, capBuf, queue, out, pulls, captured,
            delivered, loopVars>>
vars == <<source_info, lock, wpc, tickedSinceCommit, pc, amp, coeff, in_room, room_amplitude,
          amplitude, left_amp, right_amp, settings, cutoff, ticks, acquired,
          stored, renderSrc, observed, sentLog, istream, channels, taken, capBuf,
          queue, out, pulls, captured, delivered, wire, produced, rpc>>

\* State of run_out when it enters its loop, before run_in, with the channel
\* empty.
Init ==
    /\ source_info = SourceInfoDefault
    /\ lock = "free"
    /\ wpc = "idle"
    /\ tickedSinceCommit = FALSE
    /\ pc = "try_read"
    /\ amp = Zero
    /\ coeff = Zero
    /\ in_room = FALSE
    /\ room_amplitude = One
    /\ amplitude = One
    /\ left_amp = One
    /\ right_amp = One
    /\ settings = <<>>
    /\ cutoff = OpenAirCutoff
    /\ ticks = 0
    /\ acquired = FALSE
    /\ stored = [amplitude |-> 0, left_amp |-> 0, right_amp |-> 0]
    /\ renderSrc = [amplitude |-> 0, left_amp |-> 0, right_amp |-> 0,
                    queued |-> 0]
    /\ rpc = "amplitude"
    /\ observed = <<>>
    /\ sentLog = <<>>
    /\ istream = "unbuilt"
    /\ channels = 0
    /\ taken = 0
    /\ capBuf = <<>>
    /\ queue = <<>>
    /\ out = Silence
    /\ pulls = 0
    /\ captured = <<>>
    /\ delivered = <<>>
    /\ wire = <<>>
    /\ produced = <<>>

----------------------------------------------------------------------------
(* Pose writer: takes the write lock, overwrites the three fields, releases. *)

WriterLock ==
    /\ wpc = "idle"
    /\ lock = "free"
    /\ lock' = "write"
    /\ wpc' = "position"
    /\ UNCHANGED <<source_info, tickedSinceCommit, ctlVars, renderVars,
                   capVars>>

WriterSetPosition ==
    /\ wpc = "position"
    /\ \E p \in Positions :
          source_info' = [source_info EXCEPT !.relative_position = p]
    /\ wpc' = "direction"
    /\ UNCHANGED <<lock, tickedSinceCommit, ctlVars, renderVars, capVars>>

WriterSetDirection ==
    /\ wpc = "direction"
    /\ \E d \in Directions :
          source_info' = [source_info EXCEPT !.direction = d]
    /\ wpc' = "room"
    /\ UNCHANGED <<lock, tickedSinceCommit, ctlVars, renderVars, capVars>>

WriterSetRoom ==
    /\ wpc = "room"
    /\ \E r \in RoomOptions :
          source_info' = [source_info EXCEPT !.room = r]
    /\ wpc' = "idle"
    /\ lock' = "free"
    /\ tickedSinceCommit' = FALSE
    /\ UNCHANGED <<ctlVars, renderVars, capVars>>

----------------------------------------------------------------------------
(* Control loop of run_out. *)

\* A loop that reads the SourceInfo without regard for a writer in progress.
TryReadOkDespiteWriter ==
    /\ pc = "try_read"
    /\ ticks < MaxTicks
    /\ lock' = "read"
    /\ ticks' = ticks + 1
    /\ acquired' = TRUE
    /\ amp' = DistanceAttenuation(source_info)
    /\ coeff' = OrientationCoeff(source_info)
    /\ observed' = Append(observed, source_info.room.some)
    /\ pc' = "set_left"
    /\ tickedSinceCommit' = TRUE
    /\ UNCHANGED <<in_room, room_amplitude, amplitude, left_amp, right_amp,
                   settings, stored, sentLog, source_info, wpc, renderVars,
                   capVars>>

\* if let Ok(info) = source_info.try_read() : the lock is not held for writing.
TryReadOk ==
    /\ pc = "try_read"
    /\ ticks < MaxTicks
    /\ lock # "write"
    /\ lock' = "read"
    /\ ticks' = ticks + 1
    /\ acquired' = TRUE
    /\ amp' = DistanceAttenuation(source_info)
    /\ coeff' = OrientationCoeff(source_info)
    /\ observed' = Append(observed, source_info.room.some)
    /\ pc' = "set_left"
    /\ tickedSinceCommit' = TRUE
    /\ UNCHANGED <<in_room, room_amplitude, amplitude, left_amp, right_amp,
                   settings, stored, sentLog, source_info, wpc, renderVars,
                   capVars>>

\* A loop that, when try_read fails, computes from SourceInfo::default()
\* instead of skipping the body.
TryReadErrUsingDefault ==
    /\ pc = "try_read"
    /\ ticks < MaxTicks
    /\ lock = "write"
    /\ ticks' = ticks + 1
    /\ acquired' = FALSE
    /\ amplitude' = DistanceAttenuation(SourceInfoDefault)
    /\ tickedSinceCommit' = TRUE
    /\ UNCHANGED <<pc, lock, amp, coeff, in_room, room_amplitude, left_amp,
                   right_amp, settings, stored, observed, sentLog, source_info,
                   wpc, renderVars, capVars>>

\* try_read returns Err: the body is skipped, the loop sleeps and comes back.
TryReadErr ==
    /\ pc = "try_read"
    /\ ticks < MaxTicks
    /\ lock = "write"
    /\ ticks' = ticks + 1
    /\ acquired' = FALSE
    /\ tickedSinceCommit' = TRUE
    /\ UNCHANGED <<pc, lock, amp, coeff, in_room, room_amplitude, amplitude,
                   left_amp, right_amp, settings, stored, observed, sentLog,
                   source_info, wpc, renderVars, capVars>>

\* left_amp.set_value((1.0 + coeff) / 2.0);
SetLeft ==
    /\ pc = "set_left"
    /\ left_amp' = LeftGain(coeff)
    /\ stored' = [stored EXCEPT !.left_amp = ticks]
    /\ pc' = "set_right"
    /\ UNCHANGED <<lock, amp, coeff, in_room, room_amplitude, amplitude,
                   right_amp, settings, ticks, acquired, observed, sentLog,
                   poseVars, renderVars, capVars>>

\* right_amp.set_value((1.0 - coeff) / 2.0);
SetRight ==
    /\ pc = "set_right"
    /\ right_amp' = RightGain(coeff)
    /\ stored' = [stored EXCEPT !.right_amp = ticks]
    /\ pc' = "room"
    /\ UNCHANGED <<lock, amp, coeff, in_room, room_amplitude, amplitude,
                   left_amp, settings, ticks, acquired, observed, sentLog,
                   poseVars, renderVars, capVars>>

\* A room step that never notices the listener leaving.
RoomEffectNeverLeaving ==
    /\ pc = "room"
    /\ IF source_info.room.some /\ ~in_room
       THEN /\ in_room' = TRUE
            /\ room_amplitude' = room_amplitude_factor(source_info.room)
            /\ IF Len(settings) < SettingCap
               THEN /\ settings' = Append(settings, RoomCutoff)
                    /\ sentLog' = Append(sentLog, RoomCutoff)
                    /\ pc' = "set_amplitude"
                    /\ lock' = lock
               ELSE /\ pc' = "panicked"
                    /\ lock' = "free"
                    /\ UNCHANGED <<settings, sentLog>>
       ELSE /\ pc' = "set_amplitude"
            /\ UNCHANGED <<in_room, room_amplitude, settings, sentLog, lock>>
    /\ UNCHANGED <<amp, coeff, amplitude, left_amp, right_amp, ticks, acquired,
                   stored, observed, poseVars, renderVars, capVars>>

\* Room effects: the if let Some(room) / else if in_room block.
\* try_send fails on a full setting queue and expect() then panics; the
\* unwinding drops the read guard.
RoomEffect ==
    /\ pc = "room"
    /\ IF source_info.room.some
       THEN IF ~in_room
            THEN /\ in_room' = TRUE
                 /\ room_amplitude' = room_amplitude_factor(source_info.room)
                 /\ IF Len(settings) < SettingCap
                    THEN /\ settings' = Append(settings, RoomCutoff)
                         /\ sentLog' = Append(sentLog, RoomCutoff)
                         /\ pc' = "set_amplitude"
                         /\ lock' = lock
                    ELSE /\ pc' = "panicked"
                         /\ lock' = "free"
                         /\ UNCHANGED <<settings, sentLog>>
            ELSE /\ pc' = "set_amplitude"
                 /\ UNCHANGED <<in_room, room_amplitude, settings, sentLog, lock>>
       ELSE /\ pc' = "set_amplitude"
            /\ IF in_room
               THEN /\ in_room' = FALSE
                    /\ room_amplitude' = room_amplitude_factor(NoRoom)
               ELSE UNCHANGED <<in_room, room_amplitude>>
            /\ UNCHANGED <<settings, sentLog, lock>>
    /\ UNCHANGED <<amp, coeff, amplitude, left_amp, right_amp, ticks, acquired,
                   stored, observed, poseVars, renderVars, capVars>>

\* amplitude.set_value(amp * room_amplitude); the guard is dropped at the end
\* of the if body, then the loop sleeps 5 ms.
SetAmplitude ==
    /\ pc = "set_amplitude"
    /\ amplitude' = FMul(amp, room_amplitude)
    /\ stored' = [stored EXCEPT !.amplitude = ticks]
    /\ lock' = "free"
    /\ pc' = "try_read"
    /\ UNCHANGED <<amp, coeff, in_room, room_amplitude, left_amp, right_amp,
                   settings, ticks, acquired, observed, sentLog, poseVars,
                   renderVars, capVars>>

----------------------------------------------------------------------------
(* Output callback of run_out: one backend.get_stereo().  The net's source  *)
(* is sine(); the tick loads amplitude, lets the listener of the material   *)
(* filter apply the pending settings, then loads left_amp and right_amp:    *)
(* three separate atomic loads.  No new tick starts once run_out unwinds.   *)

\* tick() * (var(&amplitude) >> follow(0.1)): the load of amplitude.
RenderAmplitude ==
    /\ rpc = "amplitude"
    /\ pc # "panicked"
    /\ renderSrc' = [renderSrc EXCEPT !.amplitude = stored.amplitude,
                                      !.queued = Len(queue)]
    /\ rpc' = "filter"
    /\ UNCHANGED <<lock, ctlVars, cutoff, poseVars, capVars>>

\* The listener of the material filter: every pending setting is applied.
RenderFilter ==
    /\ rpc = "filter"
    /\ IF settings # <<>>
       THEN /\ cutoff' = settings[Len(settings)]
            /\ settings' = <<>>
       ELSE UNCHANGED <<cutoff, settings>>
    /\ rpc' = "left"
    /\ UNCHANGED <<lock, pc, amp, coeff, in_room, room_amplitude, amplitude,
                   left_amp, right_amp, ticks, acquired, stored, observed,
                   sentLog, renderSrc, poseVars, capVars>>

\* pass() * var(&left_amp): the load of left_amp.
RenderLeft ==
    /\ rpc = "left"
    /\ renderSrc' = [renderSrc EXCEPT !.left_amp = stored.left_amp]
    /\ rpc' = "right"
    /\ UNCHANGED <<lock, ctlVars, cutoff, poseVars, capVars>>

\* pass() * var(&right_amp): the load of right_amp, which ends the tick.
RenderRight ==
    /\ rpc = "right"
    /\ renderSrc' = [renderSrc EXCEPT !.right_amp = stored.right_amp]
    /\ rpc' = "amplitude"
    /\ UNCHANGED <<lock, ctlVars, cutoff, poseVars, capVars>>

\* One tick of the net runs its nodes in order; the control loop, on another
\* thread, can store between any two of them.
RenderTick ==
    \/ RenderAmplitude
    \/ RenderFilter
    \/ RenderLeft
    \/ RenderRight

NextOut ==
    \/ WriterLock
    \/ WriterSetPosition
    \/ WriterSetDirection
    \/ WriterSetRoom
    \/ TryReadOk
    \/ TryReadErr
    \/ SetLeft
    \/ SetRight
    \/ RoomEffect
    \/ SetAmplitude
    \/ RenderTick

\* The output pipeline: pose writer, control loop and output callback.
Spec == Init /\ [][NextOut]_vars

----------------------------------------------------------------------------
(* Input callback of run_in: read_data(data, channels, sender.clone()).     *)
(* The callback is split at its loop: InputCallback receives the buffer,    *)
(* ReadDataPush is one iteration (one chunk, one try_send).                 *)

\* run_in, first call: device.build_input_stream(config, callback, ..).  On
\* success the stream exists with its callback, which a backend that runs
\* streams upon creation may call from then on; on failure there is no stream.
RunInBuild ==
    /\ istream = "unbuilt"
    /\ \E c \in 1..MaxChannels :
          channels' = c
    /\ \E ok \in BOOLEAN :
          istream' = IF ok THEN "built" ELSE "failed"
    /\ UNCHANGED <<taken, capBuf, queue, out, pulls, captured, delivered, lock,
                   ctlVars, poseVars, renderVars,
                   loopVars>>

\* run_in, second call: stream.play().  The stream is kept (mem::forget) when
\* play succeeds; otherwise it is dropped at the end of the if-let, after the
\* callback it may be running has returned, and no callback runs any more.
RunInPlay ==
    /\ istream = "built"
    /\ \E ok \in BOOLEAN :
          /\ ~ok => capBuf = <<>>
          /\ istream' = IF ok THEN "playing" ELSE "failed"
    /\ UNCHANGED <<channels, taken, capBuf, queue, out, pulls, captured,
                   delivered, lock, ctlVars, poseVars, renderVars, loopVars>>

RunIn ==
    \/ RunInBuild
    \/ RunInPlay

InputCallback ==
    /\ istream \in {"built", "playing"}
    /\ capBuf = <<>>
    /\ \E n \in 1..MaxBuf :
          /\ Len(captured) + NumChunks(n, channels) <= MaxFrames
          /\ capBuf' = Chunks(DeviceBuffer(taken, n), channels)
          /\ taken' = taken + n
    /\ UNCHANGED <<istream, channels, queue, out, pulls, captured, delivered,
                   lock,
                   ctlVars, poseVars, renderVars,
                   loopVars>>

ReadDataPush ==
    /\ capBuf # <<>>
    /\ LET msg == FrameOf(Head(capBuf))
       IN  /\ queue' = TrySend(queue, msg)
           /\ captured' = Append(captured,
                                 [frame |-> msg, sent |-> TrySendOk(queue)])
    /\ capBuf' = Tail(capBuf)
    /\ UNCHANGED <<istream, channels, taken, out, pulls, delivered, lock,
                   ctlVars, poseVars, renderVars,
                   loopVars>>

----------------------------------------------------------------------------
(* InputNode::tick: self.receiver.try_recv().unwrap_or((0.0, 0.0)).         *)

\* A source that repeats the frame it returned last when the channel is empty.
InputNodeTickHoldingLast ==
    /\ pulls < MaxPulls
    /\ pulls' = pulls + 1
    /\ IF queue # <<>>
       THEN /\ out' = Head(queue)
            /\ queue' = Tail(queue)
            /\ delivered' = Append(delivered, Head(queue))
       ELSE UNCHANGED <<out, queue, delivered>>
    /\ UNCHANGED <<istream, channels, taken, capBuf, captured, lock, ctlVars,
                   poseVars, renderVars,
                   loopVars>>

\* A source that reads the oldest frame without removing it from the channel.
InputNodeTickPeeking ==
    /\ pulls < MaxPulls
    /\ pulls' = pulls + 1
    /\ IF queue # <<>>
       THEN /\ out' = Head(queue)
            /\ delivered' = Append(delivered, Head(queue))
            /\ UNCHANGED queue
       ELSE /\ out' = Silence
            /\ UNCHANGED <<queue, delivered>>
    /\ UNCHANGED <<istream, channels, taken, capBuf, captured, lock, ctlVars,
                   poseVars, renderVars,
                   loopVars>>

InputNodeTick ==
    /\ pulls < MaxPulls
    /\ pulls' = pulls + 1
    /\ IF queue # <<>>
       THEN /\ out' = Head(queue)
            /\ queue' = Tail(queue)
            /\ delivered' = Append(delivered, Head(queue))
       ELSE /\ out' = Silence
            /\ UNCHANGED <<queue, delivered>>
    /\ UNCHANGED <<istream, channels, taken, capBuf, captured, lock, ctlVars,
                   poseVars, renderVars,
                   loopVars>>

NextCapture ==
    \/ RunIn
    \/ InputCallback
    \/ ReadDataPush
    \/ InputNodeTick

\* The capture pipeline with the InputNode as the consumer of the channel
\* (the graph of main.rs).
SpecCapture == Init /\ [][NextCapture]_vars

NextMic ==
    \/ RunIn
    \/ InputCallback
    \/ ReadDataPush
    \/ RenderTick

\* run_in and the output callback of run_out in lib.rs (feature "mic"): the
\* InputNode is built from the receiver but the net's source is sine(), so
\* nothing calls InputNode::tick.
SpecMic == Init /\ [][NextMic]_vars

----------------------------------------------------------------------------
(* Loop-back of the output stream into the input stream: write_data fills   *)
(* an interleaved buffer, read_data receives that buffer.  Both streams use *)
(* the same channel count and sample type.                                  *)

\* Output callback: write_data(data, channels, &mut next_value), with
\* next_sample called once per chunk of the buffer.
WriteData ==
    /\ istream = "playing"
    /\ wire = <<>>
    /\ capBuf = <<>>
    /\ \E n \in 1..MaxBuf :
          LET frames == NumChunks(n, channels)
          IN  /\ Len(produced) + frames <= MaxProduced
              /\ \E pairs \in [1..frames -> ProducerFrames] :
                    /\ wire' = WriteDataBuf(n, channels, pairs)
                    /\ produced' =
                          produced \o
                          [c \in 1..frames |->
                              [pair |-> pairs[c],
                               width |-> IF c * channels <= n THEN channels
                                         ELSE n - (c - 1) * channels]]
    /\ UNCHANGED <<istream, channels, taken, capBuf, queue, out, pulls,
                   captured, delivered, lock, ctlVars, poseVars, renderVars>>

\* Input callback whose data is the buffer write_data filled.
InputCallbackLoopback ==
    /\ istream = "playing"
    /\ capBuf = <<>>
    /\ wire # <<>>
    /\ capBuf' = Chunks(wire, channels)
    /\ taken' = taken + Len(wire)
    /\ wire' = <<>>
    /\ UNCHANGED <<istream, channels, queue, out, pulls, captured, delivered,
                   produced, lock, ctlVars, poseVars, renderVars>>

NextRoundTrip ==
    \/ RunIn
    \/ WriteData
    \/ InputCallbackLoopback
    \/ ReadDataPush

SpecRoundTrip == Init /\ [][NextRoundTrip]_vars

\* The control loop alone, on a SourceInfo that was written before the loop
\* started and is not written again.
InitGain ==
    /\ source_info \in
          { SourceInfo(p, d, r) : p \in GainPositions, d \in Directions,
                                  r \in RoomOptions }
    /\ lock = "free"
    /\ wpc = "idle"
    /\ tickedSinceCommit = FALSE
    /\ pc = "try_read"
    /\ amp = Zero
    /\ coeff = Zero
    /\ in_room = FALSE
    /\ room_amplitude = One
    /\ amplitude = One
    /\ left_amp = One
    /\ right_amp = One
    /\ settings = <<>>
    /\ cutoff = OpenAirCutoff
    /\ ticks = 0
    /\ acquired = FALSE
    /\ stored = [amplitude |-> 0, left_amp |-> 0, right_amp |-> 0]
    /\ renderSrc = [amplitude |-> 0, left_amp |-> 0, right_amp |-> 0,
                    queued |-> 0]
    /\ rpc = "amplitude"
    /\ observed = <<>>
    /\ sentLog = <<>>
    /\ istream = "unbuilt"
    /\ channels = 0
    /\ taken = 0
    /\ capBuf = <<>>
    /\ queue = <<>>
    /\ out = Silence
    /\ pulls = 0
    /\ captured = <<>>
    /\ delivered = <<>>
    /\ wire = <<>>
    /\ produced = <<>>

NextGain ==
    \/ TryReadOk
    \/ SetLeft
    \/ SetRight
    \/ RoomEffect
    \/ SetAmplitude

SpecGain == InitGain /\ [][NextGain]_vars

----------------------------------------------------------------------------
(* Derived notions used by the properties. *)

Origin == Vec(0, 0, 0)

\* The shared parameters as the net reads them.
Published == <<amplitude, left_amp, right_amp>>

\* Number of room-membership edges in the observations of the acquiring
\* iterations, the membership before the first one being Outside.
RECURSIVE EdgesFrom(_, _)
EdgesFrom(prev, obs) ==
    IF obs = <<>> THEN 0
    ELSE (IF Head(obs) # prev THEN 1 ELSE 0) + EdgesFrom(Head(obs), Tail(obs))
Edges(obs) == EdgesFrom(FALSE, obs)

\* The cutoff most recently requested for the material filter: the one it was
\* created with until a setting is sent.
LastRequestedCutoff ==
    IF sentLog = <<>> THEN OpenAirCutoff ELSE sentLog[Len(sentLog)]

\* Frames of the capture history whose push succeeded / was refused.
RECURSIVE FramesWhere(_, _)
FramesWhere(log, ok) ==
    IF log = <<>> THEN <<>>
    ELSE (IF Head(log).sent = ok THEN <<Head(log).frame>> ELSE <<>>)
         \o FramesWhere(Tail(log), ok)
Accepted == FramesWhere(captured, TRUE)
Dropped == FramesWhere(captured, FALSE)

----------------------------------------------------------------------------
(* Properties. *)

\* C1: in every reachable state of the output pipeline, from the creation of
\* the shared parameters on, the left and right gains visible to the renderer
\* sum to exactly 1.
C1_GainsSumToOne == FAdd(left_amp, right_amp) = One

\* C2: between control-loop iterations, the number of filter settings sent so
\* far equals the number of room-membership edges observed so far (entering
\* and leaving each count as one edge).
C2_OneSettingPerEdge ==
    pc = "try_read" => Len(sentLog) = Edges(observed)

\* C3: between control-loop iterations, once the loop has observed that the
\* listener is outside every room, the cutoff last requested for the filter
\* is the open-air value the filter was created with.
C3_LeavingRestoresOpenAirCutoff ==
    (pc = "try_read" /\ ~in_room) => LastRequestedCutoff = OpenAirCutoff

\* C4: for a snapshot at the origin the iteration publishes left = right = 0.5
\* and computes amplitude 1 before the room factor, and no published
\* parameter is ever a non-number.
C4_OriginIsCentred ==
    /\ (pc = "room" /\ source_info.relative_position = Origin) =>
          (left_amp = Half /\ right_amp = Half /\ amp = One)
    /\ \A i \in 1..3 : IsNum(Published[i])

\* C5: a push never waits and never grows the queue past its capacity: a
\* pending push can always complete, the queue holds exactly the accepted
\* frames not yet received (a refused push leaves it untouched), and while
\* nothing has been consumed the refused pushes are exactly those made beyond
\* the capacity (capacity + 1 pushes: one refused).
C5_PushNeverBlocksNorOverflows ==
    /\ Len(queue) <= QueueCap
    /\ capBuf # <<>> => ENABLED ReadDataPush
    /\ queue = SubSeq(Accepted, Len(delivered) + 1, Len(Accepted))
    /\ delivered = <<>> =>
          Len(Dropped) = (IF Len(captured) > QueueCap
                          THEN Len(captured) - QueueCap ELSE 0)

\* C5 witness: capacity + 1 pushes with no consumption, the queue full, and
\* exactly the last push refused.
C5_Witness ==
    /\ delivered = <<>>
    /\ Len(captured) = QueueCap + 1
    /\ Len(queue) = QueueCap
    /\ Len(Dropped) = 1
    /\ ~captured[QueueCap + 1].sent

\* C6: a render tick of the live-capture pipeline that finds the capture
\* queue non-empty removes exactly its oldest frame.
C6_RenderTickTakesOldestFrame ==
    [][(RenderTick /\ queue # <<>>) => queue' = Tail(queue)]_vars

\* C7: the three parameters a render tick reads were never stored by two
\* different control-loop iterations (0 marks the value set at creation).
C7_RenderReadsOneIteration ==
    rpc = "amplitude" =>
    \A x, y \in {renderSrc.amplitude, renderSrc.left_amp, renderSrc.right_amp} :
        (x > 0 /\ y > 0) => x = y

\* C8: the amplitude an iteration publishes is the distance attenuation of
\* the snapshot it read times the room amplitude factor of that same
\* snapshot (the guard is still held, so source_info is that snapshot).
C8_AmplitudeFromSnapshot ==
    [][(pc = "set_amplitude" /\ pc' = "try_read") =>
          amplitude' = FMul(DistanceAttenuation(source_info),
                            room_amplitude_factor(source_info.room))]_vars

\* C9: the control loop never terminates abnormally.
C9_ControlLoopNeverPanics == pc # "panicked"

\* C10: an iteration whose try_read fails completes in that one step, without
\* acquiring the lock, and leaves the three shared parameters, the setting
\* queue, the tracked membership and the room amplitude factor unchanged.
C10_FailedAcquisitionChangesNothing ==
    [][(pc = "try_read" /\ lock = "write" /\ ticks' # ticks) =>
          /\ pc' = "try_read"
          /\ lock' = "write"
          /\ UNCHANGED <<amplitude, left_amp, right_amp, settings, in_room,
                         room_amplitude>>]_vars

\* C10 witness: the latest iteration failed to acquire the state while the
\* writer holds it, after an earlier iteration published its values, which
\* the renderer still sees.
C10_Witness ==
    /\ pc = "try_read"
    /\ ~acquired
    /\ lock = "write"
    /\ ticks > stored.amplitude
    /\ stored.amplitude > 0
    /\ stored.left_amp = stored.amplitude
    /\ stored.right_amp = stored.amplitude
    /\ in_room
    /\ amplitude # One

\* An iteration of the control loop is between its try_read and its last
\* store.
InIteration == pc \in {"set_left", "set_right", "room", "set_amplitude"}

\* C11: throughout an iteration, the position, direction and room the loop
\* computes from are those of one completed write: no write is in progress
\* (the protected value is as the latest completed write left it), and the
\* distance attenuation, the orientation coefficient and the observed room
\* membership were all computed from that value.
C11_IterationReadsOneCommittedWrite ==
    InIteration =>
        /\ wpc = "idle"
        /\ lock = "read"
        /\ amp = DistanceAttenuation(source_info)
        /\ coeff = OrientationCoeff(source_info)
        /\ observed[Len(observed)] = source_info.room.some

\* C11 witness: an iteration at its room step on a pose the writer committed
\* after an earlier iteration, differing from the initial pose in position,
\* direction and room.
C11_Witness ==
    /\ pc = "room"
    /\ ticks >= 2
    /\ source_info.relative_position # SourceInfoDefault.relative_position
    /\ source_info.direction # SourceInfoDefault.direction
    /\ source_info.room.some
    /\ ~in_room

\* The parameters the spec derives from a pose: distance attenuation times
\* the room factor of the pose's own room, and the two gains.
DerivedFrom(info) ==
    <<FMul(DistanceAttenuation(info), room_amplitude_factor(info.room)),
      LeftGain(OrientationCoeff(info)),
      RightGain(OrientationCoeff(info))>>

\* C13: once an iteration has started after the latest completed write and
\* the loop is between iterations with no new write begun, the published
\* amplitude and gains are those derived from the committed pose.
C13_PublishedWithinOneIteration ==
    (pc = "try_read" /\ wpc = "idle" /\ tickedSinceCommit) =>
        Published = DerivedFrom(source_info)

\* A gain or coefficient within [lo, hi] (in thousandths).
Within(x, lo, hi) == IsNum(x) /\ lo <= x.v /\ x.v <= hi

\* C14: once an iteration has stored both gains, they lie in [0, 1], and the
\* orientation coefficient it computed lies in [-1, 1].
C14_GainsInUnitInterval ==
    pc \in {"room", "set_amplitude"} =>
        /\ Within(coeff, -1000, 1000)
        /\ Within(left_amp, 0, 1000)
        /\ Within(right_amp, 0, 1000)

\* C17: in_room is the room membership of the latest snapshot whose room
\* step has run: false before any, the latest observation once the room step
\* of an iteration is done, and the observation before it while an iteration
\* has not reached its room step yet (so failed acquisitions change nothing).
C17_InRoomTracksSnapshot ==
    LET n == Len(observed)
    IN  IF pc \in {"set_left", "set_right", "room"}
        THEN in_room = (n >= 2 /\ observed[n - 1])
        ELSE in_room = (n >= 1 /\ observed[n])

\* C17 witness: the loop saw the listener inside, then outside, then failed
\* to acquire the state, and tracks the listener as outside.
C17_Witness ==
    /\ pc = "try_read"
    /\ Len(observed) = 2
    /\ observed[1]
    /\ ~observed[2]
    /\ ~acquired
    /\ ticks = 3
    /\ ~in_room

\* All frames read_data built, in capture order.
AllCaptured == [i \in 1..Len(captured) |-> captured[i].frame]

\* a is a subsequence of b: its elements appear in b in the same order.
RECURSIVE IsSubsequence(_, _)
IsSubsequence(a, b) ==
    IF a = <<>> THEN TRUE
    ELSE IF b = <<>> THEN FALSE
    ELSE IF Head(a) = Head(b) THEN IsSubsequence(Tail(a), Tail(b))
    ELSE IsSubsequence(a, Tail(b))

\* C12: a tick of the live-capture source that finds the capture queue empty
\* is never held back by the empty queue, returns the silent frame (0,0) and
\* leaves the queue empty, receiving nothing.
C12_UnderrunYieldsSilence ==
    /\ []((queue = <<>> /\ pulls < MaxPulls) => ENABLED InputNodeTick)
    /\ [][(pulls' = pulls + 1 /\ queue = <<>>) =>
            (out' = Silence /\ queue' = <<>> /\ delivered' = delivered)]_vars

\* C12 witness: a tick on an empty queue, after a frame had been received,
\* has returned silence.
C12_Witness ==
    /\ delivered # <<>>
    /\ pulls > Len(delivered)
    /\ queue = <<>>
    /\ out = Silence

\* C16: when the input stream could not be built or started, nothing has
\* been captured or pushed, the queue is empty, and the live-capture source
\* has handed over nothing but silence.
C16_FailedInputDegradesToSilence ==
    istream = "failed" =>
        /\ taken = 0 /\ capBuf = <<>> /\ captured = <<>>
        /\ queue = <<>> /\ delivered = <<>>
        /\ out = Silence

\* C18: the frames the live-capture source has handed over are non-silent,
\* one per tick at most, and form a subsequence of the captured frames in
\* capture order; followed by the frames still queued they are exactly the
\* frames whose push was accepted, each once, so the captured frames missing
\* from them are the refused ones and the queued ones.  A non-silent frame
\* returned by the latest tick is the last one handed over.
C18_DeliveredIsSubsequenceOfCaptured ==
    /\ delivered \o queue = Accepted
    /\ IsSubsequence(delivered, AllCaptured)
    /\ Len(captured) = Len(delivered) + Len(queue) + Len(Dropped)
    /\ Len(delivered) <= pulls
    /\ \A i \in 1..Len(delivered) : delivered[i] # Silence
    /\ out # Silence =>
          (delivered # <<>> /\ out = delivered[Len(delivered)])

\* C18 witness: a push was refused, a later one accepted, and the later
\* frame has been handed over: the frames handed over are not a prefix of the
\* captured ones.
C18_Witness ==
    /\ Len(delivered) >= 2
    /\ Len(Dropped) >= 1
    /\ \E i \in 1..Len(delivered) : delivered[i] # AllCaptured[i]

\* The whole distance of a position of the model.
WholeDistance(p) == ISqrt(p[1] * p[1] + p[2] * p[2] + p[3] * p[3])

\* 1 / (1 + (d / D0)^2) = D0^2 / (D0^2 + d^2), in thousandths.
Attenuation(d) == F(TruncDiv(1000 * D0 * D0, D0 * D0 + d * d))

\* C15: the attenuation the control loop computed from a snapshot at distance
\* d is 1/(1+(d/D0)^2) with D0 = 10: 1 at distance 0, 0.5 at distance 10, and
\* smaller than the attenuation of every nearer position, larger than that of
\* every farther one.
C15_AttenuationIsInverseSquareLaw ==
    pc = "set_left" =>
        LET d == WholeDistance(source_info.relative_position)
        IN  /\ D0 = 10
            /\ amp = Attenuation(d)
            /\ d = 0 => amp = One
            /\ d = D0 => amp = Half
            /\ \A q \in GainPositions :
                  LET e == WholeDistance(q)
                      other == DistanceAttenuation(
                                   SourceInfo(q, source_info.direction,
                                              source_info.room))
                  IN  /\ IsNum(other)
                      /\ e < d => other.v > amp.v
                      /\ e = d => other = amp
                      /\ e > d => other.v < amp.v

\* C15 witness: the loop has computed the attenuation 0.5 for a source at
\* distance 10 that is not on the x axis.
C15_Witness ==
    /\ pc = "set_left"
    /\ source_info.relative_position = Vec(6, 8, 0)
    /\ amp = Half

\* A value converted to the stream's sample type and back.
RoundTrip(x) == ToSampleF32(FromSampleI16(x))

\* The frame read_data builds from the output frame that received `p`.
Echo(p) ==
    <<RoundTrip(p.pair[1]),
      IF p.width >= 2 THEN RoundTrip(p.pair[2]) ELSE Zero>>

\* C19 (as stated): on a 2-channel stream, the frames read_data pushes are
\* the pairs the producer returned for the complete output frames, in order.
C19_RoundTripIsIdentity ==
    channels = 2 =>
        /\ Len(captured) <= Len(produced)
        /\ \A i \in 1..Len(captured) :
              produced[i].width = 2 => captured[i].frame = produced[i].pair

\* C19 (amended): on a 2-channel stream the producer is called once per
\* output frame, its left value converted to the sample type goes to every
\* even channel and its right value to every odd channel, and read_data
\* builds and offers to the queue one frame per output frame, in order, equal
\* to the produced pair converted to the sample type and back.
C19_RoundTripThroughSampleType ==
    channels = 2 =>
        /\ Len(produced) =
              Len(captured) + Len(capBuf) + NumChunks(Len(wire), channels)
        /\ \A j \in 1..Len(wire) :
              LET p == produced[Len(produced)
                                - NumChunks(Len(wire), channels)
                                + ((j - 1) \div channels) + 1]
              IN  wire[j] = FromSampleI16(p.pair[((j - 1) % 2) + 1])
        /\ \A i \in 1..Len(captured) : captured[i].frame = Echo(produced[i])

\* C19 witness: two complete 2-channel frames went through write_data and
\* read_data in one buffer, the first unchanged, the second altered by the
\* conversion.
C19_Witness ==
    /\ channels = 2
    /\ wire = <<>> /\ capBuf = <<>>
    /\ Len(captured) = 2 /\ Len(produced) = 2
    /\ produced[1].pair = <<F(125), F(-500)>>
    /\ captured[1].frame = produced[1].pair
    /\ produced[2].pair = <<F(300), F(1000)>>
    /\ produced[2].width = 2
    /\ captured[2].frame = <<F(299), F(999)>>
    /\ captured[2].sent

====
